---- MODULE Spec2Model ----
(***************************************************************************)
(* Batch XML validation (Haighton/validate_xml).                           *)
(*                                                                         *)
(* The two scripts of the repository are modelled together:                *)
(*   variant = "csv"  is batch_validate_xml.py   (CSV report, results kept *)
(*                    in a dict keyed by the base name of the file)        *)
(*   variant = "txt"  is validate_xml_0_0_4.py   (text report, results     *)
(*                    kept in a list of error logs)                        *)
(* One run is one click on VALIDATE: MainApplication.validate calls        *)
(* get_files, validate_xml and write_errors in sequence.  The GetFiles     *)
(* instance is created once, in MainApplication.__init__, and lives for    *)
(* all the clicks of the session.                                          *)
(***************************************************************************)
EXTENDS Integers, Sequences, FiniteSets, TLC

VARIABLES
    variant,            \* which of the two scripts runs
    content,            \* what each file of the tree holds (fixed per behaviour)
    files,              \* GetFiles.files, the list that get_files returns
    fnameSets,          \* number of fname.set calls made by the last get_files
    matched,            \* number of entries the last get_files appended
    path_batch,         \* batchframe.var as read by the current run
    regex,              \* createrow.re1 as read by the current run
    schemaf,            \* createrow.sch_loc as read by the current run
    validation_errors,  \* what validate_xml returned
    processed,          \* loop iterations of validate_xml that completed
    report,             \* the artifact written by write_errors in this run
    written,            \* number of artifacts written in this run
    calls,              \* the calls into lxml made by validate_xml in this run
    pc,                 \* position of the MainApplication.validate callback
    runs                \* number of VALIDATE clicks so far

vars == <<variant, content, files, fnameSets, matched, path_batch, regex,
          schemaf, validation_errors, processed, report, written, calls, pc,
          runs>>

\* Number of VALIDATE clicks explored in one session.
MaxRuns == 2

(***************************************************************************)
(* The file system.  A file name is the sequence of its characters, so     *)
(* that the pattern is really searched in it.                              *)
(***************************************************************************)
AXml == <<"a", ".", "x", "m", "l">>
BXml == <<"b", ".", "x", "m", "l">>
NTxt == <<"n", ".", "t", "x", "t">>

\* The (dirpath, filenames) triples in the order os.walk yields them,
\* top-down, for the batch folder D.  D and D/s2 both hold an a.xml.
Tree ==
    << [dirpath |-> <<"D">>,       filenames |-> <<AXml, NTxt>>],
       [dirpath |-> <<"D", "s1">>, filenames |-> <<BXml>>],
       [dirpath |-> <<"D", "s2">>, filenames |-> <<AXml>>] >>

\* os.path.join(dirpath, filename)
Join(dirpath, filename) == [dirpath |-> dirpath, filename |-> filename]

\* os.path.basename(path)
Basename(path) == path.filename

AllPaths ==
    UNION { { Join(Tree[d].dirpath, Tree[d].filenames[f]) :
              f \in DOMAIN Tree[d].filenames } : d \in DOMAIN Tree }

\* What a file holds, as far as etree.parse and xsd.validate can tell.
Kinds == {"valid", "invalid", "malformed", "unreadable"}

\* The folders the user can enter; <<"missing">> does not exist.
Roots == { <<"D">>, <<"D", "s2">>, <<"missing">> }

IsPrefix(p, q) == Len(p) <= Len(q) /\ SubSeq(q, 1, Len(p)) = p

\* os.path.exists(path_batch)
PathExists(p) == \E d \in DOMAIN Tree : Tree[d].dirpath = p

\* os.walk(path_batch): the triples of the subtree rooted at path_batch
Walk(p) == SelectSeq(Tree, LAMBDA t : IsPrefix(p, t.dirpath))

(***************************************************************************)
(* Regular expressions.  A pattern is its token list: a literal character  *)
(* or ".*", with the anchors ^ and $ kept apart.  A pattern that does not  *)
(* compile makes re.search raise re.error.                                 *)
(***************************************************************************)
DefaultRegex ==   \* ^.*\.xml$
    [compiles |-> TRUE, anchorStart |-> TRUE, anchorEnd |-> TRUE,
     toks |-> <<".*", ".", "x", "m", "l">>]
RegexA ==         \* a
    [compiles |-> TRUE, anchorStart |-> FALSE, anchorEnd |-> FALSE,
     toks |-> <<"a">>]
RegexNone ==      \* \.pdf$
    [compiles |-> TRUE, anchorStart |-> FALSE, anchorEnd |-> TRUE,
     toks |-> <<".", "p", "d", "f">>]
RegexBad ==       \* (
    [compiles |-> FALSE, anchorStart |-> FALSE, anchorEnd |-> FALSE,
     toks |-> <<>>]

Regexes == {DefaultRegex, RegexA, RegexNone, RegexBad}

RECURSIVE MatchHere(_, _, _)
MatchHere(toks, s, anchorEnd) ==
    IF toks = <<>> THEN (~anchorEnd \/ s = <<>>)
    ELSE IF Head(toks) = ".*"
         THEN \E k \in 0..Len(s) :
                 MatchHere(Tail(toks), SubSeq(s, k + 1, Len(s)), anchorEnd)
         ELSE /\ s # <<>>
              /\ Head(s) = Head(toks)
              /\ MatchHere(Tail(toks), Tail(s), anchorEnd)

\* re.search(regex, filename) for a pattern that compiles: a match may
\* start anywhere in the name unless the pattern is anchored.
ReSearch(re, s) ==
    IF re.anchorStart
    THEN MatchHere(re.toks, s, re.anchorEnd)
    ELSE \E k \in 0..Len(s) :
            MatchHere(re.toks, SubSeq(s, k + 1, Len(s)), re.anchorEnd)

\* The schema paths the user can enter: a schema that loads, a path with no
\* file behind it, and a file that is not a schema.
Schemas == {"schema.xsd", "nofile.xsd", "broken.xsd"}

(***************************************************************************)
(* GetFiles.get_files                                                      *)
(***************************************************************************)
\* The inner loop over the file names of one directory.  acc is the state
\* of the call: self.files, the count of fname.set calls, and whether
\* re.search raised re.error.
RECURSIVE ScanFiles(_, _, _, _)
ScanFiles(dirpath, filenames, re, acc) ==
    IF filenames = <<>> THEN acc
    ELSE LET filename == Head(filenames)
             sets     == acc.sets + 1          \* self.fname.set(filename)
         IN  IF ~re.compiles
             THEN [files |-> acc.files, sets |-> sets, error |-> TRUE]
             ELSE ScanFiles(dirpath, Tail(filenames), re,
                    [files |-> IF ReSearch(re, filename)
                               THEN Append(acc.files, Join(dirpath, filename))
                               ELSE acc.files,
                     sets  |-> sets,
                     error |-> FALSE])

\* The outer loop over os.walk; re.error is caught per directory and
\* breaks out of the walk.
RECURSIVE WalkLoop(_, _, _)
WalkLoop(triples, re, acc) ==
    IF triples = <<>> THEN acc
    ELSE LET r == ScanFiles(Head(triples).dirpath, Head(triples).filenames,
                            re, acc)
         IN  IF r.error THEN r ELSE WalkLoop(Tail(triples), re, r)

\* get_files appends to self.files, which is set to [] only in __init__.
get_files(selfFiles, p, re) ==
    IF PathExists(p)
    THEN WalkLoop(Walk(p), re, [files |-> selfFiles, sets |-> 0, error |-> FALSE])
    ELSE [files |-> selfFiles, sets |-> 0, error |-> FALSE]

(***************************************************************************)
(* validate_xml                                                            *)
(***************************************************************************)
\* xsd.error_log after validating the file at path: a copy of the log of
\* that validation, each entry naming the file.
ErrorLog(path) ==
    IF content[path] = "invalid"
    THEN << [filename |-> path, line |-> 1] >>
    ELSE << >>

\* validation_errors[key] = value on a dict: a new key goes last, an
\* existing key keeps its place and gets the new value.
DictSet(d, key, value) ==
    IF \E i \in DOMAIN d : d[i].key = key
    THEN [i \in DOMAIN d |->
            IF d[i].key = key THEN [key |-> key, value |-> value] ELSE d[i]]
    ELSE Append(d, [key |-> key, value |-> value])

\* batch_validate_xml.py: the dict entry for the base name of the file.
RecordCsv(acc, xmlfile) ==
    DictSet(acc, Basename(xmlfile),
            [state |-> IF content[xmlfile] = "valid" THEN "valid" ELSE "invalid",
             log   |-> ErrorLog(xmlfile)])

\* validate_xml_0_0_4.py: the error log, appended to the list.
RecordTxt(acc, xmlfile) == Append(acc, ErrorLog(xmlfile))

\* What one iteration of the loop stores for a file that parsed.
Record(v, acc, xmlfile) ==
    IF v = "csv" THEN RecordCsv(acc, xmlfile) ELSE RecordTxt(acc, xmlfile)

\* One call into lxml, as validate_xml makes them: op is "XMLSchema" (the
\* schema is parsed and compiled; xsd is the object built, 0 for none),
\* "parse" (an input file is parsed) or "validate" (xsd.validate of the
\* parsed file, on the schema object xsd).
Call(op, xsd, arg) == [op |-> op, xsd |-> xsd, arg |-> arg]

\* The loop with the schema built anew for every file.
RECURSIVE ValidateLoopReload(_, _, _, _, _, _)
ValidateLoopReload(v, xsd, fs, acc, n, cs) ==
    IF fs = <<>>
    THEN [ve |-> acc, processed |-> n, exc |-> "none", calls |-> cs]
    ELSE LET xmlfile == Head(fs)
             parsed  == Append(cs, Call("parse", 0, xmlfile))
         IN  IF content[xmlfile] = "unreadable"
             THEN [ve |-> acc, processed |-> n, exc |-> "OSError",
                   calls |-> parsed]
             ELSE IF content[xmlfile] = "malformed"
             THEN [ve |-> acc, processed |-> n, exc |-> "XMLSyntaxError",
                   calls |-> parsed]
             ELSE ValidateLoopReload(v, xsd + 1, Tail(fs),
                     Record(v, acc, xmlfile), n + 1,
                     parsed \o << Call("XMLSchema", xsd + 1, "reload"),
                                  Call("validate", xsd + 1, xmlfile) >>)

\* The loop over the located files, on the schema object xsd built before
\* it.  etree.parse raises OSError for a file that cannot be read and
\* XMLSyntaxError for one that is not well-formed; either ends the loop.
RECURSIVE ValidateLoop(_, _, _, _, _, _)
ValidateLoop(v, xsd, fs, acc, n, cs) ==
    IF fs = <<>>
    THEN [ve |-> acc, processed |-> n, exc |-> "none", calls |-> cs]
    ELSE LET xmlfile == Head(fs)
             parsed  == Append(cs, Call("parse", 0, xmlfile))
         IN  IF content[xmlfile] = "unreadable"
             THEN [ve |-> acc, processed |-> n, exc |-> "OSError",
                   calls |-> parsed]
             ELSE IF content[xmlfile] = "malformed"
             THEN [ve |-> acc, processed |-> n, exc |-> "XMLSyntaxError",
                   calls |-> parsed]
             ELSE ValidateLoop(v, xsd, Tail(fs),
                     Record(v, acc, xmlfile), n + 1,
                     Append(parsed, Call("validate", xsd, xmlfile)))

\* validate_xml builds the schema object first, inside the try, then runs
\* the loop.  It catches OSError only: it then returns what it has.  Any
\* other exception leaves the function (raised).
validate_xml(v, fs, schema) ==
    IF schema = "nofile.xsd"                    \* etree.parse: OSError
    THEN [ve |-> <<>>, processed |-> 0, raised |-> FALSE,
          calls |-> << Call("XMLSchema", 0, schema) >>]
    ELSE IF schema = "broken.xsd"               \* XMLSchemaParseError
    THEN [ve |-> <<>>, processed |-> 0, raised |-> TRUE,
          calls |-> << Call("XMLSchema", 0, schema) >>]
    ELSE LET r == ValidateLoop(v, 1, fs, <<>>, 0,
                               << Call("XMLSchema", 1, schema) >>)
         IN  [ve |-> r.ve, processed |-> r.processed,
              raised |-> (r.exc = "XMLSyntaxError"), calls |-> r.calls]

(***************************************************************************)
(* write_errors                                                            *)
(***************************************************************************)
NoReport == [batch |-> "", header |-> <<>>, rows |-> <<>>, summary |-> <<>>]

\* os.path.basename(path_batch) of a folder path
BatchName(p) == IF p = <<>> THEN "" ELSE p[Len(p)]

\* batch_validate_xml.py: the header row, then one row per item of the
\* dict.
write_errors_csv(ve, p, fs) ==
    [batch   |-> BatchName(p),
     header  |-> <<"filename", "valid", "error">>,
     rows    |-> [i \in DOMAIN ve |->
                    [filename |-> ve[i].key,
                     valid    |-> ve[i].value.state,
                     error    |-> ve[i].value.log]],
     summary |-> <<>>]

\* validate_xml_0_0_4.py: the banner, one block per non-empty error log,
\* then the summary line with its two counts.
write_errors_txt(ve, p, fs) ==
    [batch   |-> BatchName(p),
     header  |-> <<"[validate_xml log generated]">>,
     rows    |-> SelectSeq(ve, LAMBDA error : Len(error) > 0),
     summary |-> <<Len(fs) - Len(ve), Len(ve)>>]

write_errors(v, ve, p, fs) ==
    IF v = "csv" THEN write_errors_csv(ve, p, fs) ELSE write_errors_txt(ve, p, fs)

(***************************************************************************)
(* MainApplication.validate, one step per call it makes                    *)
(***************************************************************************)
Init ==
    /\ variant \in {"csv", "txt"}
    /\ content \in { c \in [AllPaths -> Kinds] :
                       \A q \in AllPaths :
                           Basename(q) = NTxt => c[q] = "malformed" }
    /\ files = <<>>
    /\ fnameSets = 0
    /\ matched = 0
    /\ path_batch = <<>>
    /\ regex = DefaultRegex
    /\ schemaf = ""
    /\ validation_errors = <<>>
    /\ processed = 0
    /\ report = NoReport
    /\ written = 0
    /\ calls = <<>>
    /\ pc = "idle"
    /\ runs = 0

\* VALIDATE is clicked: the entries are read and get_files is called.
Locate ==
    /\ pc = "idle"
    /\ runs < MaxRuns
    /\ \E p \in Roots, re \in Regexes, s \in Schemas :
          LET r == get_files(files, p, re)
          IN  /\ path_batch' = p
              /\ regex' = re
              /\ schemaf' = s
              /\ files' = r.files
              /\ fnameSets' = r.sets
              /\ matched' = Len(r.files) - Len(files)
    /\ validation_errors' = <<>>
    /\ processed' = 0
    /\ report' = NoReport
    /\ written' = 0
    /\ calls' = <<>>
    /\ pc' = "located"
    /\ runs' = runs + 1
    /\ UNCHANGED <<variant, content>>

\* validate_xml(self.getfilesclass.files, sch_loc)
Validate ==
    /\ pc = "located"
    /\ LET r == validate_xml(variant, files, schemaf)
       IN  /\ validation_errors' = IF r.raised THEN <<>> ELSE r.ve
           /\ processed' = r.processed
           /\ calls' = r.calls
           /\ pc' = IF r.raised THEN "raised" ELSE "validated"
    /\ UNCHANGED <<variant, content, files, fnameSets, matched, path_batch,
                   regex, schemaf, report, written, runs>>

\* write_errors(validation_errors, path_batch, files)
Write ==
    /\ pc = "validated"
    /\ report' = write_errors(variant, validation_errors, path_batch, files)
    /\ written' = written + 1
    /\ pc' = "done"
    /\ UNCHANGED <<variant, content, files, fnameSets, matched, path_batch,
                   regex, schemaf, validation_errors, processed, calls,
                   runs>>

\* The callback ends, by returning or by an exception that Tk reports,
\* and the main loop waits for the next click.
Return ==
    /\ pc \in {"done", "raised"}
    /\ pc' = "idle"
    /\ UNCHANGED <<variant, content, files, fnameSets, matched, path_batch,
                   regex, schemaf, validation_errors, processed, report,
                   written, calls, runs>>

Next == Locate \/ Validate \/ Write \/ Return

Spec == Init /\ [][Next]_vars

TypeOK ==
    /\ variant \in {"csv", "txt"}
    /\ pc \in {"idle", "located", "validated", "raised", "done"}
    /\ runs \in 0..MaxRuns
    /\ written \in 0..1
    /\ processed \in 0..Len(files)

(***************************************************************************)
(* The claims                                                              *)
(***************************************************************************)
SchemaLoaded == schemaf = "schema.xsd"

\* The current run validated every file of the list it was given.
AllValidated == SchemaLoaded /\ processed = Len(files)

\* The paths under the folder p whose base name the pattern re matches.
Matching(p, re) ==
    { q \in AllPaths : IsPrefix(p, q.dirpath) /\ ReSearch(re, Basename(q)) }

\* C1: a located file that is not well-formed or cannot be read does not
\* abort the batch: validate_xml returns normally, having produced a result
\* for that file and for every file after it in the list.
C1_BadFileNeverAborts ==
    ( /\ pc \in {"validated", "raised"}
      /\ SchemaLoaded
      /\ \E i \in DOMAIN files :
            content[files[i]] \in {"malformed", "unreadable"} )
    => (pc = "validated" /\ processed = Len(files))

\* C2: a run whose schema could not be loaded produces no per-file result
\* and never reaches write_errors, so it writes no report.
C2_NoReportWithoutSchema ==
    (runs > 0 /\ ~SchemaLoaded)
    => (processed = 0 /\ written = 0 /\ pc # "done")

\* C3: whatever calls came before on the same GetFiles instance,
\* get_files(D, P) on an existing folder D and a pattern P that compiles
\* returns exactly the matching paths under D, each once.
C3_GetFilesExact ==
    (pc = "located" /\ PathExists(path_batch) /\ regex.compiles)
    => ( /\ { files[i] : i \in DOMAIN files } = Matching(path_batch, regex)
         /\ Len(files) = Cardinality(Matching(path_batch, regex)) )

\* C4: in a run that reaches report writing, the number of rows handed to
\* write_errors equals the number of located files, also when two located
\* files share a base name.  (Stated for the runs that validated every
\* located file, where no file is lost to an exception.)
C4_OneRowPerFile ==
    (pc = "done" /\ AllValidated)
    => Len(validation_errors) = Len(files)

\* C5: a run whose folder does not exist, or whose pattern does not
\* compile, stops in the locating phase: validate_xml is never entered and
\* no report is written.
C5_LocateFailureAborts ==
    (runs > 0 /\ (~PathExists(path_batch) \/ ~regex.compiles))
    => (pc \in {"idle", "located"} /\ written = 0)

\* C6: the summary line of the text report gives the number of validated
\* files without diagnostics as successes and the number with at least one
\* diagnostic as errors.  (Stated for the runs that validated every located
\* file.)
C6_SummaryCounts ==
    (pc = "done" /\ variant = "txt" /\ AllValidated)
    => report.summary =
         << Len(SelectSeq(validation_errors, LAMBDA e : Len(e) = 0)),
            Len(SelectSeq(validation_errors, LAMBDA e : Len(e) > 0)) >>

\* C7: with a pattern that does not compile, get_files returns without
\* having examined any file: no fname.set call, no entry added.
C7_BadPatternNoProgress ==
    (pc = "located" /\ ~regex.compiles)
    => (fnameSets = 0 /\ matched = 0)

\* C8: a report is written at most once per run and only when every located
\* file has produced a result.  (Stated for the runs whose schema loaded:
\* what stops validation early there is an input file.)
C8_ReportOnlyWhenComplete ==
    (written > 0 /\ SchemaLoaded)
    => (written = 1 /\ processed = Len(files))

\* C9: rows follow the order of the located list: for located files f
\* before g, the row of f precedes the row of g.  (Stated for f and g of
\* different base names, each of which has a row of its own, and for text
\* blocks for the files that have diagnostics.)
C9_RowsInLocatorOrder ==
    (pc = "done" /\ AllValidated)
    => \A i, j \in DOMAIN files :
         (i < j /\ Basename(files[i]) # Basename(files[j]))
         => IF variant = "csv"
            THEN \E ri, rj \in DOMAIN report.rows :
                    /\ ri < rj
                    /\ report.rows[ri].filename = Basename(files[i])
                    /\ report.rows[rj].filename = Basename(files[j])
            ELSE (ErrorLog(files[i]) # <<>> /\ ErrorLog(files[j]) # <<>>)
                 => \E ri, rj \in DOMAIN report.rows :
                       /\ ri < rj
                       /\ report.rows[ri] = ErrorLog(files[i])
                       /\ report.rows[rj] = ErrorLog(files[j])

\* C10: a run in which no file matches the pattern, with a schema that
\* loads, writes a report with no result row: the CSV header alone, or the
\* banner and a summary of 0 successes and 0 errors.
C10_EmptyRunEmptyReport ==
    ( /\ pc = "done"
      /\ PathExists(path_batch) /\ regex.compiles /\ matched = 0
      /\ SchemaLoaded )
    => ( /\ report.rows = <<>>
         /\ variant = "txt" => report.summary = <<0, 0>> )

\* C11: in one run the schema is loaded at most once, the load comes before
\* the validation of the first input file, and every file of the run is
\* validated on the schema object that this load built.
C11_SchemaLoadedOnce ==
    /\ Cardinality({ i \in DOMAIN calls : calls[i].op = "XMLSchema" }) <= 1
    /\ \A j \in DOMAIN calls :
          calls[j].op \in {"parse", "validate"}
          => \E i \in 1..(j - 1) :
                calls[i].op = "XMLSchema" /\ calls[i].xsd # 0
    /\ \A j \in DOMAIN calls :
          calls[j].op = "validate"
          => \E i \in 1..(j - 1) :
                calls[i].op = "XMLSchema" /\ calls[i].xsd = calls[j].xsd

\* A run that validated at least two files.
C11_Witness ==
    /\ pc = "validated"
    /\ Cardinality({ j \in DOMAIN calls : calls[j].op = "validate" }) >= 2

====
